---------------------------- MODULE Spec2Model ----------------------------
(***************************************************************************)
(* A state-machine model of the three tutorial programs of the repository  *)
(*                                                                         *)
(*   bt2  src/gst-tutorials/bt2-gstreamer-concepts.c  (source -> sink)     *)
(*   bt3  src/gst-tutorials/bt3-dynamic-pipelines.c   (pad-added linker)   *)
(*   bt4  src/gst-tutorials/bt4-seeking.c             (position / seek)    *)
(*                                                                         *)
(* One behaviour is one run of one program (prog is chosen in Init).  The  *)
(* media framework is the environment: what it returns (a handle or NULL,  *)
(* a link result, a state-change return, the next bus message or a         *)
(* timeout, a query answer, the caps of a new pad) is drawn from small     *)
(* sets by the action that makes the call.                                 *)
(*                                                                         *)
(* Time is counted in milliseconds (the code counts nanoseconds in a       *)
(* gint64; no value here comes near either width).                         *)
(***************************************************************************)
EXTENDS Integers, Sequences, FiniteSets, TLC

VARIABLES
    prog,          \* which program runs: "bt2", "bt3" or "bt4"
    pc,            \* position of main()
    exit,          \* <<>> while main runs, <<code>> once it has returned
    handle,        \* per object handle: "null", "ref", "bin" or "freed"
    target,        \* state last requested with gst_element_set_state
    ret,           \* main's local ret (GstStateChangeReturn)
    static_linked, \* gst_element_link / gst_element_link_many succeeded
    connected,     \* bt3: pad_added_handler is connected to "pad-added"
    playing,       \* bt4: data.playing
    terminate,     \* bt3: terminate, bt4: data.terminate
    seek_enabled,  \* bt4: data.seek_enabled
    seek_done,     \* bt4: data.seek_done
    duration,      \* bt4: data.duration
    polled,        \* gst_bus_timed_pop_filtered has been called
    seeks,         \* number of gst_element_seek_simple calls made
    seekq,         \* answer of the most recent successful seeking query
    seek_result,   \* what gst_element_seek_simple returned ("none": not called)
    pads,          \* bt3: the pads handled so far, each with its outcome
    peer,          \* bt3: peer of the converter's sink pad (0: not linked)
    attempts,      \* bt3: number of gst_pad_link calls made
    inflight,      \* bt3: pads whose handler passed its checks and has not linked yet
    errs,          \* the lines main has written with g_printerr so far
    last           \* what the most recent step did (calls made, lines printed)

vars == <<prog, pc, exit, handle, target, ret, static_linked, connected,
          playing, terminate, seek_enabled, seek_done, duration, polled,
          seeks, seekq, seek_result, pads, peer, attempts, inflight, errs, last>>

(***************************************************************************)
(* Bounds of the model.                                                    *)
(***************************************************************************)
\* pads the dynamic source exposes in one run
MaxPads == 3

(***************************************************************************)
(* Program constants.                                                      *)
(***************************************************************************)
\* one second, in the model's time unit
GST_SECOND == 1000
\* GST_CLOCK_TIME_NONE as stored in the gint64 data.duration
GST_CLOCK_TIME_NONE == -1
\* an initial value of current beyond the threshold
CurrentInitPastThreshold == 30 * GST_SECOND
\* initial value of the local current (bt4 line 97)
CurrentInit == -1
\* GstPadLinkReturn
GST_PAD_LINK_OK == 0
GST_PAD_LINK_WAS_LINKED == -2
GST_PAD_LINK_NOFORMAT == -4
GST_PAD_LINK_REFUSED == -6

Programs == {"bt2", "bt3", "bt4"}

Handles == {"pipeline", "source", "convert", "resample", "sink", "bus"}

\* the handles main() creates before its NULL check; bt4's only element,
\* data.playbin, is its pipeline
Created(p) ==
    CASE p = "bt2" -> {"pipeline", "source", "sink"}
      [] p = "bt3" -> {"pipeline", "source", "convert", "resample", "sink"}
      [] p = "bt4" -> {"pipeline"}

StateChangeReturns == {"FAILURE", "SUCCESS", "ASYNC", "NO_PREROLL"}

States == {"READY", "PAUSED", "PLAYING"}

\* positions a successful position query may report
Positions == {0, 10 * GST_SECOND, 10 * GST_SECOND + 1, 11 * GST_SECOND,
              31 * GST_SECOND}

\* durations a successful duration query may report
Durations == {52 * GST_SECOND}

(***************************************************************************)
(* The record of one step.                                                 *)
(***************************************************************************)
NoSeek == [requested |-> FALSE, target |-> 0, ok |-> FALSE]

\* one call of a step on a temporary object (a popped message, a query, the
\* caps and the sink pad of the handler) or on the pipeline: f is "acquire"
\* for the call that hands the caller a reference, "use" for a call that
\* reads the object, "release" for the unref, "call" for a query or seek
Ev(f, obj) == [f |-> f, obj |-> obj]

NoStep ==
    [op |-> "init", msg |-> "-", src |-> "-", new_state |-> "-",
     current |-> CurrentInit, queries |-> {}, seek |-> NoSeek, out |-> {},
     calls |-> <<>>, pad |-> 0, linkret |-> GST_PAD_LINK_OK]

\* the iteration without the unref of its message
gst_message_unref_missing == <<>>

\* gst_message_unref (msg)
gst_message_unref == <<Ev("release", "msg")>>

\* msg = gst_bus_timed_pop_filtered (...) when it returns a message
gst_bus_timed_pop_filtered == <<Ev("acquire", "msg")>>

\* the lines a step writes with g_printerr
StderrLines == {"not_created", "not_linked", "not_playing", "error_received",
                "unexpected", "position_failed", "duration_failed",
                "seeking_query_failed"}

(***************************************************************************)
(* Reference counting: gst_object_unref of the pipeline drops the last     *)
(* reference to it, and with it the elements the pipeline owns.            *)
(***************************************************************************)
gst_object_unref(hs, h) ==
    [x \in Handles |->
        IF x = h THEN "freed"
        ELSE IF h = "pipeline" /\ hs[x] = "bin" THEN "freed"
        ELSE hs[x]]

\* gst_bin_add_many: the pipeline takes ownership of the elements
gst_bin_add_many(hs, es) ==
    [x \in Handles |-> IF x \in es THEN "bin" ELSE hs[x]]

Init ==
    /\ prog \in Programs
    /\ pc = "create"
    /\ exit = <<>>
    /\ handle = [h \in Handles |-> "null"]
    /\ target = "VOID"
    /\ ret = "none"
    /\ static_linked = FALSE
    /\ connected = FALSE
    /\ playing = FALSE
    /\ terminate = FALSE
    /\ seek_enabled = FALSE
    /\ seek_done = FALSE
    /\ duration = GST_CLOCK_TIME_NONE
    /\ polled = FALSE
    /\ seeks = 0
    /\ seekq = "none"
    /\ seek_result = "none"
    /\ pads = <<>>
    /\ peer = 0
    /\ attempts = 0
    /\ inflight = {}
    /\ errs = {}
    /\ last = NoStep

dataVars == <<playing, terminate, seek_enabled, seek_done, duration, seeks, seekq,
              seek_result>>
padVars == <<pads, peer, attempts, inflight>>

(***************************************************************************)
(* Construction.                                                           *)
(***************************************************************************)
\* the value main returns after the bus wait
SuccessCode == 0

\* a failure path that returns what the normal path returns
FailureCodeAsSuccess == SuccessCode

\* the value main returns on a construction failure
FailureCode == -1

\* gst_element_factory_make / gst_pipeline_new for every handle of the
\* program, then the NULL check: any NULL handle ends main with -1, and
\* nothing is released on that path
CreateElements ==
    /\ pc = "create"
    /\ \E made \in SUBSET Created(prog) :
          /\ handle' = [h \in Handles |-> IF h \in made THEN "ref" ELSE handle[h]]
          /\ IF made = Created(prog)
             THEN /\ pc' = IF prog = "bt4" THEN "start" ELSE "build"
                  /\ exit' = exit
                  /\ last' = [NoStep EXCEPT !.op = "create"]
             ELSE /\ pc' = "returned"
                  /\ exit' = <<FailureCode>>
                  /\ last' = [NoStep EXCEPT !.op = "create", !.out = {"not_created"}]
    /\ UNCHANGED <<prog, target, ret, static_linked, connected, polled>>
    /\ UNCHANGED dataVars
    /\ errs' = errs \cup (last'.out \cap StderrLines)
    /\ UNCHANGED padVars

\* the link's result is not looked at
LinkFailedIgnored(ok) == FALSE

\* the check of the static link's result
LinkFailed(ok) == ~ok

\* gst_bin_add_many, then the static link (bt2: source -> sink; bt3:
\* convert -> resample -> sink, the source is left for pad_added_handler),
\* and in bt3 g_signal_connect
\* a main that never connects the handler
g_signal_connect_missing(p) == FALSE

\* g_signal_connect (data.source, "pad-added", ...), which only bt3 calls
g_signal_connect(p) == p = "bt3"

BuildPipeline ==
    /\ pc = "build"
    /\ prog \in {"bt2", "bt3"}
    /\ \E ok \in BOOLEAN :
          LET added == gst_bin_add_many(handle, Created(prog) \ {"pipeline"})
          IN  IF LinkFailed(ok)
              THEN /\ handle' = gst_object_unref(added, "pipeline")
                   /\ pc' = "returned"
                   /\ exit' = <<FailureCode>>
                   /\ last' = [NoStep EXCEPT !.op = "build", !.out = {"not_linked"}]
                   /\ UNCHANGED <<static_linked, connected>>
              ELSE /\ handle' = added
                   /\ pc' = "start"
                   /\ exit' = exit
                   /\ static_linked' = ok
                   /\ connected' = g_signal_connect(prog)
                   /\ last' = [NoStep EXCEPT !.op = "build"]
    /\ UNCHANGED <<prog, target, ret, polled>>
    /\ UNCHANGED dataVars
    /\ errs' = errs \cup (last'.out \cap StderrLines)
    /\ UNCHANGED padVars

\* gst_element_set_state (PLAYING), the check for FAILURE, and on success
\* gst_element_get_bus
StartPlaying ==
    /\ pc = "start"
    /\ \E r \in StateChangeReturns :
          /\ ret' = r
          /\ target' = "PLAYING"
          /\ IF r = "FAILURE"
             THEN /\ handle' = gst_object_unref(handle, "pipeline")
                  /\ pc' = "returned"
                  /\ exit' = <<FailureCode>>
                  /\ last' = [NoStep EXCEPT !.op = "start", !.out = {"not_playing"}]
             ELSE /\ handle' = [handle EXCEPT !["bus"] = "ref"]
                  /\ pc' = "loop"
                  /\ exit' = exit
                  /\ last' = [NoStep EXCEPT !.op = "start"]
    /\ UNCHANGED <<prog, static_linked, connected, polled>>
    /\ UNCHANGED dataVars
    /\ errs' = errs \cup (last'.out \cap StderrLines)
    /\ UNCHANGED padVars

(***************************************************************************)
(* Shutdown: gst_object_unref (bus), gst_element_set_state (NULL),         *)
(* gst_object_unref (pipeline), return 0.                                  *)
(***************************************************************************)
UnrefBus ==
    /\ pc = "unref_bus"
    /\ handle' = gst_object_unref(handle, "bus")
    /\ pc' = "set_null"
    /\ last' = [NoStep EXCEPT !.op = "unref_bus"]
    /\ UNCHANGED <<prog, exit, target, ret, static_linked, connected, polled>>
    /\ UNCHANGED dataVars
    /\ errs' = errs \cup (last'.out \cap StderrLines)
    /\ UNCHANGED padVars

SetStateNull ==
    /\ pc = "set_null"
    /\ target' = "NULL"
    /\ pc' = "unref_pipeline"
    /\ last' = [NoStep EXCEPT !.op = "set_null"]
    /\ UNCHANGED <<prog, exit, handle, ret, static_linked, connected, polled>>
    /\ UNCHANGED dataVars
    /\ errs' = errs \cup (last'.out \cap StderrLines)
    /\ UNCHANGED padVars

UnrefPipeline ==
    /\ pc = "unref_pipeline"
    /\ handle' = gst_object_unref(handle, "pipeline")
    /\ pc' = "returned"
    /\ exit' = <<SuccessCode>>
    /\ last' = [NoStep EXCEPT !.op = "unref_pipeline"]
    /\ UNCHANGED <<prog, target, ret, static_linked, connected, polled>>
    /\ UNCHANGED dataVars
    /\ errs' = errs \cup (last'.out \cap StderrLines)
    /\ UNCHANGED padVars

(***************************************************************************)
(* Bus messages.  gst_bus_timed_pop_filtered returns only messages of the  *)
(* types named in its filter.                                              *)
(***************************************************************************)
Msg(type, src, new_state) == [type |-> type, src |-> src, new_state |-> new_state]

StateChanged == {Msg("STATE_CHANGED", s, n) : s \in {"pipeline", "child"}, n \in States}

Bt2Messages == {Msg("ERROR", "-", "-"), Msg("EOS", "-", "-")}

Bt3Messages == Bt2Messages \cup StateChanged

Bt4Messages == Bt3Messages \cup {Msg("DURATION", "-", "-")}

\* a loop that never looks at terminate
LoopExitNever(t) == "loop"

\* a loop whose exit goes straight to the unref of the pipeline
LoopExitToUnrefPipeline(t) == IF t THEN "unref_pipeline" ELSE "loop"

\* the loop condition, while (!terminate): where main goes after an iteration
LoopExit(t) == IF t THEN "unref_bus" ELSE "loop"

(***************************************************************************)
(* bt2: one blocking wait for an error or end-of-stream, then shutdown.    *)
(***************************************************************************)
Bt2Dispatch(m) ==
    CASE m.type = "ERROR" -> {"error_received", "debug_info"}
      [] m.type = "EOS" -> {"eos"}
      [] OTHER -> {"unexpected"}

Bt2Wait ==
    /\ prog = "bt2"
    /\ pc = "loop"
    /\ \E m \in Bt2Messages :
          last' = [NoStep EXCEPT !.op = "loop", !.msg = m.type, !.out = Bt2Dispatch(m),
                                 !.calls = gst_bus_timed_pop_filtered
                                           \o <<Ev("use", "msg")>>
                                           \o gst_message_unref]
    /\ polled' = TRUE
    /\ pc' = "unref_bus"
    /\ UNCHANGED <<prog, exit, handle, target, ret, static_linked, connected>>
    /\ UNCHANGED dataVars
    /\ errs' = errs \cup (last'.out \cap StderrLines)
    /\ UNCHANGED padVars

(***************************************************************************)
(* bt3: the loop of main.                                                  *)
(***************************************************************************)
\* the switch of the loop body: the new value of terminate and the lines
Bt3Dispatch(m) ==
    CASE m.type = "ERROR" ->
            [terminate |-> TRUE, out |-> {"error_received", "debug_info"}]
      [] m.type = "EOS" ->
            [terminate |-> TRUE, out |-> {"eos"}]
      [] m.type = "STATE_CHANGED" ->
            [terminate |-> terminate,
             out |-> IF m.src = "pipeline" THEN {"state_changed"} ELSE {}]
      [] OTHER ->
            [terminate |-> terminate, out |-> {"unexpected"}]

Bt3Loop ==
    /\ prog = "bt3"
    /\ pc = "loop"
    /\ \E m \in Bt3Messages :
          LET d == Bt3Dispatch(m)
          IN  /\ terminate' = d.terminate
              /\ last' = [NoStep EXCEPT !.op = "loop", !.msg = m.type, !.src = m.src,
                                        !.new_state = m.new_state, !.out = d.out,
                                        !.calls = gst_bus_timed_pop_filtered
                                                  \o <<Ev("use", "msg")>>
                                                  \o gst_message_unref]
    /\ polled' = TRUE
    /\ pc' = LoopExit(terminate')
    /\ UNCHANGED <<prog, exit, handle, target, ret, static_linked, connected>>
    /\ UNCHANGED <<playing, seek_enabled, seek_done, duration, seeks, seekq,
                   seek_result>>
    /\ errs' = errs \cup (last'.out \cap StderrLines)
    /\ UNCHANGED padVars

(***************************************************************************)
(* bt4: handle_message and the timeout branch of the loop.                 *)
(***************************************************************************)
\* what gst_element_query answers to the seeking query
SeekingAnswers == {"failed", "enabled", "disabled"}

\* what the position and the duration query answer; a failed query leaves
\* GST_CLOCK_TIME_NONE in the value
Answer(ok, value) == [ok |-> ok, value |-> value]

PositionAnswers ==
    {Answer(FALSE, GST_CLOCK_TIME_NONE)} \cup {Answer(TRUE, p) : p \in Positions}

DurationAnswers ==
    {Answer(FALSE, GST_CLOCK_TIME_NONE)} \cup {Answer(TRUE, d) : d \in Durations}

\* a test that takes every cached duration for unknown
GST_CLOCK_TIME_IS_VALID_never(t) == FALSE

\* GST_CLOCK_TIME_IS_VALID
GST_CLOCK_TIME_IS_VALID(t) == t # GST_CLOCK_TIME_NONE

\* the test without the comparison: a message of any element passes
IsFromPlaybinOrChild(m) == TRUE

\* GST_MESSAGE_SRC (msg) == GST_OBJECT (data->playbin)
IsFromPlaybin(m) == m.src = "pipeline"

\* the comparison widened to the two states in which queries are answered
IsPlayingOrPaused(new_state) == new_state \in {"PLAYING", "PAUSED"}

\* new_state == GST_STATE_PLAYING, the value stored in data->playing
IsPlaying(new_state) == new_state = "PLAYING"

\* the life of the query object of handle_message: gst_query_new_seeking,
\* gst_element_query, gst_query_parse_seeking if the query was answered,
\* gst_query_unref
SeekingQueryCalls(q) ==
    <<Ev("acquire", "query"), Ev("use", "query")>>
    \o (IF q = "failed" THEN <<>> ELSE <<Ev("use", "query")>>)
    \o <<Ev("release", "query")>>

\* the fields handle_message leaves alone; the switch reads the message
Unhandled ==
    [playing |-> playing, terminate |-> terminate, seek_enabled |-> seek_enabled,
     duration |-> duration, seekq |-> seekq, queries |-> {}, out |-> {},
     calls |-> <<Ev("use", "msg")>>]

\* handle_message (data, msg); q is the answer the seeking query gets if
\* the message makes the handler ask
handle_message(m, q) ==
  LET h ==
    CASE m.type = "ERROR" ->
            [Unhandled EXCEPT !.terminate = TRUE,
                              !.out = {"error_received", "debug_info"}]
      [] m.type = "EOS" ->
            [Unhandled EXCEPT !.terminate = TRUE, !.out = {"eos"}]
      [] m.type = "DURATION" ->
            [Unhandled EXCEPT !.duration = GST_CLOCK_TIME_NONE]
      [] m.type = "STATE_CHANGED" ->
            IF IsFromPlaybin(m)
            THEN IF IsPlaying(m.new_state)
                 THEN IF q = "failed"
                      THEN [Unhandled EXCEPT
                               !.playing = TRUE,
                               !.queries = {"seeking"},
                               !.calls = @ \o SeekingQueryCalls(q),
                               !.out = {"state_changed", "seeking_query_failed"}]
                      ELSE [Unhandled EXCEPT
                               !.playing = TRUE,
                               !.seek_enabled = (q = "enabled"),
                               !.seekq = q,
                               !.queries = {"seeking"},
                               !.calls = @ \o SeekingQueryCalls(q),
                               !.out = {"state_changed",
                                        IF q = "enabled" THEN "seeking_enabled"
                                                         ELSE "seeking_disabled"}]
                 ELSE [Unhandled EXCEPT !.playing = FALSE, !.out = {"state_changed"}]
            ELSE Unhandled
      [] OTHER ->
            [Unhandled EXCEPT !.out = {"unexpected"}]
  IN [h EXCEPT !.calls = @ \o gst_message_unref]

\* the guard without its seek_done conjunct
ShouldSeekIgnoringDone(current) ==
    seek_enabled /\ current > 10 * GST_SECOND

\* the guard without its seek_enabled conjunct
ShouldSeekIgnoringEnabled(current) ==
    ~seek_done /\ current > 10 * GST_SECOND

\* the guard with >= for >
ShouldSeekAtThreshold(current) ==
    seek_enabled /\ ~seek_done /\ current >= 10 * GST_SECOND

\* the test that guards the seek (bt4 line 116)
ShouldSeek(current) ==
    seek_enabled /\ ~seek_done /\ current > 10 * GST_SECOND

\* seek_done set only when the seek succeeded
SeekDoneIfSeekOk(ok) == ok

\* data.seek_done = TRUE, with ok the discarded result of the seek
SeekDone(ok) == TRUE

\* the offset the seek asks for
SeekTarget == 30 * GST_SECOND

\* the fields the timeout branch leaves alone
Idle ==
    [duration |-> duration, seek_done |-> seek_done, seeks |-> seeks,
     seek_result |-> seek_result,
     current |-> CurrentInit, queries |-> {}, seek |-> NoSeek, out |-> {},
     calls |-> <<>>]

\* the timeout branch (msg == NULL): pos and dur are the answers the
\* position and the duration query get if made, ok the result of the seek
Poll(pos, dur, ok) ==
    IF ~playing THEN Idle
    ELSE LET current == IF pos.ok THEN pos.value ELSE CurrentInit
             askDur == ~GST_CLOCK_TIME_IS_VALID(duration)
             seek == ShouldSeek(current)
         IN  [duration |-> IF askDur THEN dur.value ELSE duration,
              seek_done |-> IF seek THEN SeekDone(ok) ELSE seek_done,
              seeks |-> IF seek THEN seeks + 1 ELSE seeks,
              seek_result |-> IF seek THEN (IF ok THEN "ok" ELSE "failed")
                                      ELSE seek_result,
              current |-> current,
              queries |-> {"position"} \cup (IF askDur THEN {"duration"} ELSE {}),
              seek |-> IF seek
                       THEN [requested |-> TRUE, target |-> SeekTarget, ok |-> ok]
                       ELSE NoSeek,
              out |-> (IF pos.ok THEN {} ELSE {"position_failed"})
                      \cup (IF askDur /\ ~dur.ok THEN {"duration_failed"} ELSE {})
                      \cup {"position"}
                      \cup (IF seek THEN {"performing_seek"} ELSE {}),
              calls |-> <<Ev("call", "position")>>
                        \o (IF askDur THEN <<Ev("call", "duration")>> ELSE <<>>)
                        \o (IF seek THEN <<Ev("call", "seek")>> ELSE <<>>)]

Bt4Loop ==
    /\ prog = "bt4"
    /\ pc = "loop"
    /\ \/ \E m \in Bt4Messages, q \in SeekingAnswers :
             LET h == handle_message(m, q)
             IN  /\ playing' = h.playing
                 /\ terminate' = h.terminate
                 /\ seek_enabled' = h.seek_enabled
                 /\ duration' = h.duration
                 /\ seekq' = h.seekq
                 /\ last' = [NoStep EXCEPT !.op = "loop", !.msg = m.type, !.src = m.src,
                                           !.new_state = m.new_state,
                                           !.queries = h.queries, !.out = h.out,
                                           !.calls = gst_bus_timed_pop_filtered
                                                     \o h.calls]
                 /\ UNCHANGED <<seek_done, seeks, seek_result>>
       \/ \E pos \in PositionAnswers, dur \in DurationAnswers, ok \in BOOLEAN :
             LET t == Poll(pos, dur, ok)
             IN  /\ duration' = t.duration
                 /\ seek_done' = t.seek_done
                 /\ seeks' = t.seeks
                 /\ seek_result' = t.seek_result
                 /\ last' = [NoStep EXCEPT !.op = "loop", !.msg = "NULL",
                                           !.current = t.current, !.queries = t.queries,
                                           !.seek = t.seek, !.out = t.out,
                                           !.calls = t.calls]
                 /\ UNCHANGED <<playing, terminate, seek_enabled, seekq>>
    /\ polled' = TRUE
    /\ pc' = LoopExit(terminate')
    /\ UNCHANGED <<prog, exit, handle, target, ret, static_linked, connected>>
    /\ errs' = errs \cup (last'.out \cap StderrLines)
    /\ UNCHANGED padVars

(***************************************************************************)
(* bt3: pad_added_handler.                                                 *)
(*                                                                         *)
(* A pointer is NullPtr or Ptr(v).  A string is a sequence of characters,  *)
(* a caps value the sequence of the names of its structures.  The GLib and *)
(* GStreamer functions the handler passes a possibly-NULL pointer to check *)
(* their argument (g_return_val_if_fail): given NULL they log a critical   *)
(* warning and return NULL, or FALSE.                                      *)
(***************************************************************************)
NullPtr == [null |-> TRUE, v |-> <<>>]

Ptr(v) == [null |-> FALSE, v |-> v]

AudioRaw == <<"a", "u", "d", "i", "o", "/", "x", "-", "r", "a", "w">>

AudioRawInt == AudioRaw \o <<"-", "i", "n", "t">>

AudioAc3 == <<"a", "u", "d", "i", "o", "/", "x", "-", "a", "c", "3">>

AudioMpeg == <<"a", "u", "d", "i", "o", "/", "m", "p", "e", "g">>

VideoRaw == <<"v", "i", "d", "e", "o", "/", "x", "-", "r", "a", "w">>

\* what gst_pad_get_current_caps may return for a new pad: NULL while the
\* pad has no caps yet, else caps with one structure
NewPadCaps ==
    {NullPtr} \cup {Ptr(<<n>>) : n \in {AudioRaw, AudioRawInt, AudioAc3, AudioMpeg, VideoRaw}}

\* what gst_pad_link may return for two unlinked pads
LinkAnswers == {GST_PAD_LINK_OK, GST_PAD_LINK_NOFORMAT, GST_PAD_LINK_REFUSED}

gst_caps_get_structure(caps, index) ==
    IF caps.null \/ index >= Len(caps.v) THEN NullPtr ELSE Ptr(caps.v[index + 1])

gst_structure_get_name(structure) ==
    IF structure.null THEN NullPtr ELSE Ptr(structure.v)

\* g_str_has_prefix without its check of str: NULL passes for a match
g_str_has_prefix_unchecked(str, prefix) ==
    \/ str.null
    \/ /\ Len(str.v) >= Len(prefix)
       /\ SubSeq(str.v, 1, Len(prefix)) = prefix

g_str_has_prefix(str, prefix) ==
    /\ ~str.null
    /\ Len(str.v) >= Len(prefix)
    /\ SubSeq(str.v, 1, Len(prefix)) = prefix

\* the handler without its guard: the sink pad never counts as linked
gst_pad_is_linked_never == FALSE

\* gst_pad_is_linked (sink_pad)
gst_pad_is_linked == peer # 0

\* a gst_pad_link that links over an existing link
gst_pad_link_relinking(r) == r

\* gst_pad_link (new_pad, sink_pad): a pad has at most one peer; r is the
\* answer for two unlinked pads, and GST_PAD_LINK_OK makes new_pad the peer
gst_pad_link(r) == IF peer # 0 THEN GST_PAD_LINK_WAS_LINKED ELSE r

\* the macro with <= for <: GST_PAD_LINK_OK counts as a failure
GST_PAD_LINK_FAILED_or_ok(r) == r <= GST_PAD_LINK_OK

GST_PAD_LINK_FAILED(r) == r < GST_PAD_LINK_OK

\* the exit path without the unref of the caps
HandlerExitKeepingCaps(new_pad_caps) == <<Ev("release", "sink_pad")>>

\* the exit label of the handler: gst_caps_unref (new_pad_caps) if the
\* pointer is not NULL, then gst_object_unref (sink_pad)
HandlerExit(new_pad_caps) ==
    (IF new_pad_caps.null THEN <<>> ELSE <<Ev("release", "caps")>>)
    \o <<Ev("release", "sink_pad")>>

\* gst_element_get_static_pad (data->convert, "sink") and the test
\* gst_pad_is_linked (sink_pad)
HandlerEntry == <<Ev("acquire", "sink_pad"), Ev("use", "sink_pad")>>

\* gst_pad_get_current_caps (new_pad), which hands over a reference unless
\* it returns NULL, and gst_caps_get_structure (new_pad_caps, 0)
GetCurrentCaps(caps) ==
    IF caps.null THEN <<>> ELSE <<Ev("acquire", "caps"), Ev("use", "caps")>>

\* pad_added_handler (src, new_pad, data) for the pad number n with current
\* caps caps; r is the answer gst_pad_link gets if the handler calls it
pad_added_handler(n, caps, r) ==
    IF gst_pad_is_linked
    THEN [outcome |-> "already_linked", peer |-> peer, attempts |-> attempts,
          out |-> {"received_pad", "already_linked"},
          calls |-> HandlerEntry \o HandlerExit(NullPtr)]
    ELSE LET new_pad_struct == gst_caps_get_structure(caps, 0)
             new_pad_type == gst_structure_get_name(new_pad_struct)
         IN  IF ~g_str_has_prefix(new_pad_type, AudioRaw)
             THEN [outcome |-> "not_raw_audio", peer |-> peer, attempts |-> attempts,
                   out |-> {"received_pad", "not_raw_audio"}
                           \cup (IF new_pad_type.null THEN {"critical"} ELSE {}),
                   calls |-> HandlerEntry \o GetCurrentCaps(caps) \o HandlerExit(caps)]
             ELSE LET linkret == gst_pad_link(r)
                      linked == IF linkret = GST_PAD_LINK_OK THEN n ELSE peer
                      calls == HandlerEntry \o GetCurrentCaps(caps)
                               \o <<Ev("use", "sink_pad")>> \o HandlerExit(caps)
                  IN  IF GST_PAD_LINK_FAILED(linkret)
                      THEN [outcome |-> "link_failed", peer |-> linked,
                            attempts |-> attempts + 1,
                            out |-> {"received_pad", "link_failed"},
                            calls |-> calls]
                      ELSE [outcome |-> "link_succeeded", peer |-> linked,
                            attempts |-> attempts + 1,
                            out |-> {"received_pad", "link_succeeded"},
                            calls |-> calls]

\* a pad-added signal with no handler connected: nothing runs
NoHandler ==
    [outcome |-> "missed", peer |-> peer, attempts |-> attempts,
     out |-> {}, calls |-> <<>>]

\* a handler for which a failed link is fatal: it sets terminate
PadAddedFatal ==
    /\ prog = "bt3"
    /\ target = "PLAYING"
    /\ pc \in {"loop", "unref_bus", "set_null"}
    /\ Len(pads) < MaxPads
    /\ \E caps \in NewPadCaps, r \in LinkAnswers :
          LET n == Len(pads) + 1
              h == IF connected THEN pad_added_handler(n, caps, r) ELSE NoHandler
          IN  /\ pads' = Append(pads, [caps |-> caps, outcome |-> h.outcome])
              /\ peer' = h.peer
              /\ attempts' = h.attempts
              /\ terminate' = (terminate \/ h.outcome = "link_failed")
              /\ last' = [NoStep EXCEPT
                             !.op = IF connected THEN "pad_added" ELSE "pad_missed",
                             !.out = h.out, !.calls = h.calls]
    /\ UNCHANGED <<prog, pc, exit, handle, target, ret, static_linked, connected, polled, errs>>
    /\ UNCHANGED inflight
    /\ UNCHANGED <<playing, seek_enabled, seek_done, duration, seeks, seekq,
                   seek_result>>

\* the source exposes a pad and the signal runs the handler, if one is
\* connected, one run after another, each to its end; pads appear while
\* the pipeline runs: after the PLAYING request, before the NULL one
PadAdded ==
    /\ prog = "bt3"
    /\ target = "PLAYING"
    /\ pc \in {"loop", "unref_bus", "set_null"}
    /\ Len(pads) < MaxPads
    /\ \E caps \in NewPadCaps, r \in LinkAnswers :
          LET n == Len(pads) + 1
              h == IF connected THEN pad_added_handler(n, caps, r) ELSE NoHandler
          IN  /\ pads' = Append(pads, [caps |-> caps, outcome |-> h.outcome])
              /\ peer' = h.peer
              /\ attempts' = h.attempts
              /\ last' = [NoStep EXCEPT
                             !.op = IF connected THEN "pad_added" ELSE "pad_missed",
                             !.out = h.out, !.calls = h.calls]
    /\ UNCHANGED <<prog, pc, exit, handle, target, ret, static_linked, connected, polled, errs>>
    /\ UNCHANGED inflight
    /\ UNCHANGED dataVars

Next ==
    \/ CreateElements
    \/ BuildPipeline
    \/ StartPlaying
    \/ Bt2Wait
    \/ Bt3Loop
    \/ Bt4Loop
    \/ PadAdded
    \/ UnrefBus
    \/ SetStateNull
    \/ UnrefPipeline

Spec == Init /\ [][Next]_vars

\* the main thread runs: every step of main that can be taken is taken
FairSpec == Spec /\ WF_vars(UnrefBus) /\ WF_vars(SetStateNull) /\ WF_vars(UnrefPipeline)

(***************************************************************************)
(* bt3 with runs of pad_added_handler that overlap: the source may emit    *)
(* pad-added from several streaming threads, so a run can be between its   *)
(* checks and its gst_pad_link while another run starts or links.          *)
(* gst_pad_is_linked and gst_pad_link each take the pads' locks, so each   *)
(* is one step; nothing in the handler makes the two one step.             *)
(***************************************************************************)
\* the handler up to the call of gst_pad_link: "checked" when it goes on
\* to link
HandlerCheck(caps) ==
    IF gst_pad_is_linked
    THEN [outcome |-> "already_linked",
          out |-> {"received_pad", "already_linked"},
          calls |-> HandlerEntry \o HandlerExit(NullPtr)]
    ELSE LET new_pad_struct == gst_caps_get_structure(caps, 0)
             new_pad_type == gst_structure_get_name(new_pad_struct)
         IN  IF ~g_str_has_prefix(new_pad_type, AudioRaw)
             THEN [outcome |-> "not_raw_audio",
                   out |-> {"received_pad", "not_raw_audio"}
                           \cup (IF new_pad_type.null THEN {"critical"} ELSE {}),
                   calls |-> HandlerEntry \o GetCurrentCaps(caps) \o HandlerExit(caps)]
             ELSE [outcome |-> "checked",
                   out |-> {"received_pad"},
                   calls |-> HandlerEntry \o GetCurrentCaps(caps)]

\* the handler from the call of gst_pad_link to its end, for the pad n
HandlerLink(n, caps, r) ==
    LET linkret == gst_pad_link(r)
    IN  [outcome |-> IF GST_PAD_LINK_FAILED(linkret) THEN "link_failed"
                                                     ELSE "link_succeeded",
         peer |-> IF linkret = GST_PAD_LINK_OK THEN n ELSE peer,
         linkret |-> linkret,
         out |-> IF GST_PAD_LINK_FAILED(linkret) THEN {"link_failed"}
                                                 ELSE {"link_succeeded"},
         calls |-> <<Ev("use", "sink_pad")>> \o HandlerExit(caps)]

\* a run of the handler starts for a new pad and makes its checks
PadCheck ==
    /\ prog = "bt3"
    /\ connected
    /\ target = "PLAYING"
    /\ pc \in {"loop", "unref_bus", "set_null"}
    /\ Len(pads) < MaxPads
    /\ \E caps \in NewPadCaps :
          LET n == Len(pads) + 1
              h == HandlerCheck(caps)
          IN  /\ pads' = Append(pads, [caps |-> caps, outcome |-> h.outcome])
              /\ inflight' = IF h.outcome = "checked" THEN inflight \cup {n}
                                                      ELSE inflight
              /\ last' = [NoStep EXCEPT !.op = "pad_check", !.pad = n,
                                        !.out = h.out, !.calls = h.calls]
    /\ UNCHANGED <<peer, attempts>>
    /\ UNCHANGED <<prog, pc, exit, handle, target, ret, static_linked, connected, polled, errs>>
    /\ UNCHANGED dataVars

\* a run that passed its checks calls gst_pad_link and returns
PadLink ==
    /\ prog = "bt3"
    /\ target = "PLAYING"
    /\ \E n \in inflight, r \in LinkAnswers :
          LET h == HandlerLink(n, pads[n].caps, r)
          IN  /\ pads' = [pads EXCEPT ![n].outcome = h.outcome]
              /\ peer' = h.peer
              /\ attempts' = attempts + 1
              /\ inflight' = inflight \ {n}
              /\ last' = [NoStep EXCEPT !.op = "pad_link", !.pad = n,
                                        !.linkret = h.linkret,
                                        !.out = h.out, !.calls = h.calls]
    /\ UNCHANGED <<prog, pc, exit, handle, target, ret, static_linked, connected, polled, errs>>
    /\ UNCHANGED dataVars

NextOverlapping ==
    \/ CreateElements
    \/ BuildPipeline
    \/ StartPlaying
    \/ Bt2Wait
    \/ Bt3Loop
    \/ Bt4Loop
    \/ PadCheck
    \/ PadLink
    \/ UnrefBus
    \/ SetStateNull
    \/ UnrefPipeline

OverlappingSpec == Init /\ [][NextOverlapping]_vars

(***************************************************************************)
(* Properties.                                                             *)
(***************************************************************************)
\* a step of bt4's loop that found no message (the 100 ms timeout)
IsTick(step) == step.op = "loop" /\ step.msg = "NULL"

\* C1: in bt4 gst_element_seek_simple is called at most once per run:
\* seek_done is FALSE initially, becomes TRUE in the very tick that issues
\* the seek, and is never reset, whatever messages, timeouts and positions
\* follow.
C1_SeekAtMostOnce ==
    /\ ~seek_done
    /\ [](seeks <= 1 /\ (seek_done <=> seeks = 1))
    /\ [][seek_done => seek_done' /\ seeks' = seeks]_vars
    /\ [][seeks' # seeks => ~seek_done /\ seek_done' /\ seeks' = seeks + 1
                            /\ IsTick(last') /\ last'.seek.requested]_vars

\* a tick at 31 s, after the seek was made, that asked for no second seek
C1_Witness ==
    /\ seeks = 1
    /\ seek_done
    /\ playing
    /\ seek_enabled
    /\ IsTick(last)
    /\ last.current = 31 * GST_SECOND
    /\ ~last.seek.requested

\* C2: in bt4 a seek is requested only while the most recent successful
\* seeking query stored seek_enabled = TRUE; while every successful query
\* reported disabled, or none succeeded, no seek is requested even with a
\* position above 10 s.
C2_NoSeekWhenDisabled ==
    /\ [](seek_enabled <=> seekq = "enabled")
    /\ [][seeks' # seeks => seekq = "enabled" /\ seek_enabled]_vars
    /\ [][seekq # "enabled" => seeks' = seeks /\ ~last'.seek.requested]_vars

\* a playing tick above 10 s, with seeking reported disabled: no seek
C2_Witness ==
    /\ seekq = "disabled"
    /\ playing
    /\ IsTick(last)
    /\ last.current > 10 * GST_SECOND
    /\ ~last.seek.requested
    /\ seeks = 0

\* the caps are present and the name of their first structure starts with
\* "audio/x-raw"
HasRawAudioCaps(caps) ==
    /\ ~caps.null
    /\ Len(caps.v) >= 1
    /\ Len(caps.v[1]) >= Len(AudioRaw)
    /\ \A k \in 1..Len(AudioRaw) : caps.v[1][k] = AudioRaw[k]

\* the pads for which the handler called gst_pad_link
Attempted == {i \in 1..Len(pads) : pads[i].outcome \in {"link_failed", "link_succeeded"}}

\* the step is a run of pad_added_handler
IsHandlerStep == pads' # pads

\* C3: pad_added_handler never calls gst_pad_link for a new pad whose
\* current caps are NULL or whose first structure's name does not start
\* with "audio/x-raw": it declines the pad as not raw audio (or ignores it
\* because the sink pad is linked already), leaves the converter's sink pad
\* as it was, and returns.
C3_NeverLinksNonAudio ==
    /\ [](/\ \A i \in 1..Len(pads) :
                ~HasRawAudioCaps(pads[i].caps) =>
                    /\ pads[i].outcome \in {"not_raw_audio", "already_linked"}
                    /\ peer # i
          /\ attempts = Cardinality(Attempted))
    /\ [][IsHandlerStep /\ ~HasRawAudioCaps(pads'[Len(pads')].caps) =>
            /\ attempts' = attempts
            /\ peer' = peer
            /\ pc' = pc
            /\ pads'[Len(pads')].outcome =
                  (IF peer # 0 THEN "already_linked" ELSE "not_raw_audio")
            /\ pads'[Len(pads')].outcome \in last'.out]_vars

\* a pad without caps was declined and the sink pad is still unlinked
C3_Witness ==
    /\ last.op = "pad_added"
    /\ pads # <<>>
    /\ pads[Len(pads)].caps = NullPtr
    /\ pads[Len(pads)].outcome = "not_raw_audio"
    /\ peer = 0
    /\ attempts = 0

\* C4: once the converter's sink pad is linked, every further run of
\* pad_added_handler, for any pad, makes no link attempt, logs that the pad
\* is already linked and leaves the link as it is; any number of runs makes
\* at most one link.
C4_LinkerIdempotent ==
    /\ [](Cardinality({i \in 1..Len(pads) : pads[i].outcome = "link_succeeded"}) <= 1)
    /\ [][peer # 0 => peer' = peer /\ attempts' = attempts]_vars
    /\ [][IsHandlerStep /\ peer # 0 =>
            /\ pads'[Len(pads')].outcome = "already_linked"
            /\ last'.out = {"received_pad", "already_linked"}]_vars

\* three runs of the handler: the link was made by the first, and the two
\* after it, one of them for another raw audio pad, were ignored
C4_Witness ==
    /\ Len(pads) = 3
    /\ peer = 1
    /\ attempts = 1
    /\ HasRawAudioCaps(pads[3].caps)
    /\ pads[2].outcome = "already_linked"
    /\ pads[3].outcome = "already_linked"
    /\ "already_linked" \in last.out

\* the pads the handler reported as linked
Succeeded == {i \in 1..Len(pads) : pads[i].outcome = "link_succeeded"}

\* C5: with the new pads handled one after another, in any order, the
\* converter's sink pad is linked to the first pad in arrival order that
\* has raw audio caps and whose link attempt succeeds; every pad before it
\* is declined as not raw audio (or, being raw audio, its link failed), and
\* every pad after it is ignored as already linked.
C5_FirstAudioPadLinked ==
    /\ peer = (IF Succeeded = {} THEN 0
               ELSE CHOOSE i \in Succeeded : \A j \in Succeeded : i <= j)
    /\ peer # 0 => HasRawAudioCaps(pads[peer].caps)
    /\ \A i \in 1..Len(pads) :
          IF peer # 0 /\ i > peer THEN pads[i].outcome = "already_linked"
          ELSE IF ~HasRawAudioCaps(pads[i].caps) THEN pads[i].outcome = "not_raw_audio"
          ELSE IF i = peer THEN pads[i].outcome = "link_succeeded"
          ELSE pads[i].outcome = "link_failed"

\* a video pad first (declined), a raw audio pad second (linked), a third
\* pad ignored
C5_Witness ==
    /\ Len(pads) = 3
    /\ pads[1].caps = Ptr(<<VideoRaw>>)
    /\ pads[1].outcome = "not_raw_audio"
    /\ pads[2].caps = Ptr(<<AudioRaw>>)
    /\ pads[2].outcome = "link_succeeded"
    /\ pads[3].outcome = "already_linked"
    /\ peer = 2

\* C6: on every failure exit (a NULL element or pipeline handle, a failed
\* static link, a state change that returns FAILURE) every handle that was
\* created has been released before main returns.
C6_NoLeakOnFailure ==
    exit = <<-1>> => \A h \in Handles : handle[h] \in {"null", "freed"}

\* the lines of the three construction failures
FailureLines == {"not_created", "not_linked", "not_playing"}

\* C7: the exit code is -1 exactly when main fails before the event loop
\* (creation, static link or state change) and 0 exactly when it leaves
\* through the bus wait and the shutdown; there is no other exit code.
C7_ExitCodes ==
    /\ exit \in {<<>>, <<0>>, <<-1>>}
    /\ exit # <<>> <=> pc = "returned"
    /\ exit = <<-1>> <=>
          /\ pc = "returned"
          /\ ~polled
          /\ handle["bus"] = "null"
          /\ last.out \cap FailureLines # {}
    /\ exit = <<0>> <=>
          /\ pc = "returned"
          /\ polled
          /\ last.op = "unref_pipeline"
          /\ errs \cap FailureLines = {}

\* main returned -1 because the state change to PLAYING failed
C7_Witness ==
    /\ exit = <<-1>>
    /\ ret = "FAILURE"
    /\ "not_playing" \in last.out
    /\ ~polled

\* C8: in bt2 and bt3 the PLAYING state is requested only after every
\* element was created, added to the pipeline and statically linked; when
\* the static link fails main returns -1 without requesting PLAYING, and a
\* failed construction never polls the bus.
C8_NoPlayingAfterFailedLink ==
    /\ prog \in {"bt2", "bt3"} /\ target # "VOID" =>
          /\ static_linked
          /\ handle["pipeline"] \in {"ref", "freed"}
          /\ \A e \in Created(prog) \ {"pipeline"} : handle[e] \in {"bin", "freed"}
    /\ "not_linked" \in errs =>
          /\ pc = "returned"
          /\ exit = <<-1>>
          /\ target = "VOID"
          /\ ~polled
          /\ handle["bus"] = "null"
    /\ prog \in {"bt2", "bt3"} /\ exit = <<-1>> => ~polled /\ handle["bus"] = "null"

\* bt3 returned -1 after its static link failed
C8_Witness ==
    /\ prog = "bt3"
    /\ "not_linked" \in last.out
    /\ exit = <<-1>>
    /\ target = "VOID"

\* the step is one iteration of an event loop (for bt2, its one wait)
IsLoopStep == last'.op = "loop" /\ pc = "loop"

\* C9: an event loop is left after, and only after, an error or an
\* end-of-stream message was dispatched: terminate starts FALSE, only the
\* error and end-of-stream branches set it, nothing resets it, and it is
\* tested once per iteration; state-changed and duration messages and
\* timeouts keep the loop running.  Once the message is dispatched the bus
\* is not popped again, no query and no seek is made, and main goes on to
\* return 0 (in bt2 after an end-of-stream without any error line).
C9_LoopEndsOnErrorOrEos ==
    /\ ~terminate
    /\ [][terminate => terminate']_vars
    /\ [][terminate' /\ ~terminate => IsLoopStep /\ last'.msg \in {"ERROR", "EOS"}]_vars
    /\ [][IsLoopStep =>
            IF last'.msg \in {"ERROR", "EOS"}
            THEN pc' = "unref_bus" /\ (prog = "bt2" \/ terminate')
            ELSE pc' = "loop" /\ ~terminate']_vars
    /\ [](pc \in {"unref_bus", "set_null", "unref_pipeline"} \/ exit = <<0>> =>
             polled /\ (prog = "bt2" \/ terminate))
    /\ [][polled /\ pc # "loop" =>
            /\ last'.op # "loop"
            /\ polled' = polled
            /\ last'.queries = {}
            /\ ~last'.seek.requested
            /\ seeks' = seeks
            /\ errs' = errs]_vars
    /\ [][prog = "bt2" /\ IsLoopStep /\ last'.msg = "EOS" => errs' = {}]_vars
    /\ (polled /\ pc # "loop") ~> (pc = "returned" /\ exit = <<0>>)

\* bt4 played, made its seek, got an end-of-stream and returned 0, without
\* an error line
C9_Witness ==
    /\ prog = "bt4"
    /\ pc = "returned"
    /\ exit = <<0>>
    /\ terminate
    /\ seeks = 1
    /\ errs = {}

\* C10: in bt4 a loop step requests a seek if and only if the step is a
\* timeout and playing and seek_enabled are TRUE, seek_done is FALSE and
\* the position this tick's query returned is above 10 s; the request is
\* for 30 s.  A step that consumed a message, or one made while playing is
\* FALSE, makes no position query, no duration query and no seek.
C10_SeekIffConditions ==
    /\ [][seeks' # seeks \/ last'.seek.requested <=>
            /\ IsLoopStep
            /\ last'.msg = "NULL"
            /\ playing
            /\ seek_enabled
            /\ ~seek_done
            /\ "position" \in last'.queries
            /\ last'.current > 10 * GST_SECOND]_vars
    /\ [](last.seek.requested => last.seek.target = 30 * GST_SECOND)
    /\ [][IsLoopStep /\ (last'.msg # "NULL" \/ ~playing) =>
            /\ last'.queries \cap {"position", "duration"} = {}
            /\ ~last'.seek.requested
            /\ seeks' = seeks]_vars

\* the seek, requested by a tick whose position was just above 10 s
C10_Witness ==
    /\ IsTick(last)
    /\ last.seek.requested
    /\ last.seek.target = 30 * GST_SECOND
    /\ last.current = 10 * GST_SECOND + 1
    /\ seeks = 1

\* the step dispatches a state-changed message in bt4's loop
IsStateChangedStep == prog = "bt4" /\ IsLoopStep /\ last'.msg = "STATE_CHANGED"

\* C11: in bt4 playing is written if and only if a state-changed message
\* comes from the playbin itself: it then becomes TRUE exactly when the new
\* state is PLAYING, so playing always tells whether the most recent such
\* message reported PLAYING (FALSE before the first); a state-changed
\* message of a sub-element leaves playing, seek_enabled, seek_done,
\* duration and terminate as they are and makes no query.
C11_PlayingTracksPipeline ==
    /\ ~playing
    /\ [][playing' # playing => IsStateChangedStep /\ last'.src = "pipeline"]_vars
    /\ [][IsStateChangedStep /\ last'.src = "pipeline" =>
            playing' = (last'.new_state = "PLAYING")]_vars
    /\ [][IsStateChangedStep /\ last'.src # "pipeline" =>
            /\ UNCHANGED <<playing, seek_enabled, seek_done, duration, terminate>>
            /\ UNCHANGED <<seeks, seekq>>
            /\ last'.queries = {}
            /\ last'.out = {}]_vars

\* a sub-element reported PAUSED while the pipeline plays: playing stays TRUE
C11_Witness ==
    /\ prog = "bt4"
    /\ last.op = "loop"
    /\ last.msg = "STATE_CHANGED"
    /\ last.src = "child"
    /\ last.new_state = "PAUSED"
    /\ playing

\* a seeking query was made earlier in the session: it was answered, or
\* its failure was reported
SeekingQueried == seekq # "none" \/ "seeking_query_failed" \in errs

\* the step dispatches the playbin's state-changed message to PLAYING
IsPlayingEntry ==
    IsStateChangedStep /\ last'.src = "pipeline" /\ last'.new_state = "PLAYING"

Balanced(obj, calls) ==
    LET I == {i \in DOMAIN calls : calls[i].obj = obj}
    IN  \/ I = {}
        \/ \E a \in I, r \in I :
              /\ a < r
              /\ calls[a].f = "acquire"
              /\ calls[r].f = "release"
              /\ \A i \in I \ {a, r} : a < i /\ i < r /\ calls[i].f = "use"

\* the step dispatches a message whose seeking query failed
IsFailedSeekingQuery == IsLoopStep /\ "seeking_query_failed" \in last'.out

\* C13 as stated: a failed seeking query is logged, does not end the loop,
\* leaves seek_enabled FALSE, and its query object is released.
C13_FailedQueryLeavesSeekDisabled ==
    [][IsFailedSeekingQuery =>
         /\ "seeking_query_failed" \in errs'
         /\ terminate' = terminate
         /\ pc' = "loop"
         /\ Ev("acquire", "query") \in {last'.calls[i] : i \in DOMAIN last'.calls}
         /\ Balanced("query", last'.calls)
         /\ ~seek_enabled']_vars

\* the step is a timeout tick of bt4's loop
IsTickStep == prog = "bt4" /\ IsLoopStep /\ last'.msg = "NULL"

\* C14: in bt4 the cached duration starts unknown; the duration query is
\* made exactly on a playing tick at which the cache is unknown; a
\* duration-changed message resets the cache to unknown; a failed query
\* leaves it unknown (so the next playing tick asks again) and a successful
\* one stores the answer; a known duration changes only by the reset of a
\* duration-changed message, so it is not re-queried until one arrives.
C14_DurationCache ==
    /\ duration = GST_CLOCK_TIME_NONE
    /\ [][("duration" \in last'.queries) <=>
            (IsTickStep /\ playing /\ duration = GST_CLOCK_TIME_NONE)]_vars
    /\ [][prog = "bt4" /\ IsLoopStep /\ last'.msg = "DURATION" =>
            duration' = GST_CLOCK_TIME_NONE]_vars
    /\ [][IsTickStep /\ "duration" \in last'.queries =>
            IF "duration_failed" \in last'.out
            THEN duration' = GST_CLOCK_TIME_NONE
            ELSE duration' \in Durations]_vars
    /\ [][duration # GST_CLOCK_TIME_NONE /\ duration' # duration =>
            /\ IsLoopStep
            /\ last'.msg = "DURATION"
            /\ duration' = GST_CLOCK_TIME_NONE]_vars

\* a duration query failed on an earlier tick and this tick's query succeeded
C14_Witness ==
    /\ prog = "bt4"
    /\ IsTick(last)
    /\ "duration_failed" \in errs
    /\ "duration" \in last.queries
    /\ "duration_failed" \notin last.out
    /\ duration \in Durations

\* the events of a sequence of calls
Events(calls) == {calls[i] : i \in DOMAIN calls}

\* C15: in bt2, bt3 and bt4 an iteration that popped a message acquires it,
\* reads it and releases it exactly once, after the last read, whatever
\* branch dispatches it; a timeout iteration touches no message; so no
\* message is released twice or read after its release, and none is held
\* when the loop is left.
C15_MessageReleasedOnce ==
    /\ last.op = "loop" /\ last.msg # "NULL" =>
          /\ Ev("acquire", "msg") \in Events(last.calls)
          /\ Balanced("msg", last.calls)
          /\ last.calls[Len(last.calls)] = Ev("release", "msg")
    /\ last.op = "loop" /\ last.msg = "NULL" =>
          \A e \in Events(last.calls) : e.obj # "msg"
    /\ last.op # "loop" =>
          \A e \in Events(last.calls) : e.obj # "msg"

\* the branch with a second temporary: the playbin's message to PLAYING
\* is released after the query object
C15_Witness ==
    /\ prog = "bt4"
    /\ last.op = "loop"
    /\ last.msg = "STATE_CHANGED"
    /\ Ev("release", "query") \in Events(last.calls)
    /\ Ev("release", "msg") \in Events(last.calls)

\* everything the shutdown path releases is released and main has returned 0
ShutDown ==
    /\ exit = <<SuccessCode>>
    /\ handle["bus"] = "freed"
    /\ handle["pipeline"] = "freed"
    /\ target = "NULL"

\* C16: an error message on the bus ends the loop and takes the shutdown
\* path of end-of-stream: the dispatch itself releases nothing; then the
\* bus is released, then the pipeline is set to NULL, then the pipeline is
\* released and main returns 0; each of the three happens once, on a handle
\* still held, and the pipeline is released only in the NULL state; and
\* main does get there.
C16_ErrorShutsDownInOrder ==
    /\ [][IsLoopStep /\ last'.msg = "ERROR" =>
            /\ pc' = "unref_bus"
            /\ "error_received" \in errs'
            /\ handle' = handle /\ target' = target /\ exit' = exit
            /\ handle["bus"] = "ref" /\ handle["pipeline"] = "ref"
            /\ target = "PLAYING"]_vars
    /\ [][polled /\ (handle'["bus"] # handle["bus"] \/ last'.op = "unref_bus") =>
            /\ handle["bus"] = "ref" /\ handle'["bus"] = "freed"
            /\ handle'["pipeline"] = "ref"
            /\ target' = "PLAYING"
            /\ exit' = <<>>]_vars
    /\ [][polled /\ (target' # target \/ last'.op = "set_null") =>
            /\ target = "PLAYING" /\ target' = "NULL"
            /\ handle["bus"] = "freed"
            /\ handle'["pipeline"] = "ref"
            /\ exit' = <<>>]_vars
    /\ [][polled /\ (handle'["pipeline"] # handle["pipeline"]
                     \/ last'.op = "unref_pipeline" \/ exit' # exit) =>
            /\ handle["pipeline"] = "ref" /\ handle'["pipeline"] = "freed"
            /\ handle["bus"] = "freed"
            /\ target = "NULL"
            /\ exit = <<>> /\ exit' = <<SuccessCode>>]_vars
    /\ ("error_received" \in errs) ~> ShutDown

\* main returned after an error message
C16_Witness == "error_received" \in errs /\ ShutDown

\* the step is a run of the handler whose link attempt failed
IsFailedLink == IsHandlerStep /\ pads'[Len(pads')].outcome = "link_failed"

\* C17: in bt3 a failed link of a new pad is not fatal: the handler prints
\* the failure and returns; terminate, the position of main and the exit
\* code are as before, so the loop runs on until an error or end-of-stream
\* message; and the converter's sink pad is still unlinked, so the handler
\* will try to link a later raw audio pad.
C17_FailedLinkNotFatal ==
    /\ [][IsFailedLink =>
            /\ "link_failed" \in last'.out
            /\ UNCHANGED <<terminate, pc, exit, target, handle>>
            /\ peer = 0 /\ peer' = 0
            /\ ~gst_pad_is_linked']_vars
    /\ [][prog = "bt3" /\ terminate' # terminate =>
            IsLoopStep /\ last'.msg \in {"ERROR", "EOS"}]_vars

\* the second pad was linked after the link of the first one failed, and
\* the loop is still running
C17_Witness ==
    /\ prog = "bt3"
    /\ pc = "loop"
    /\ ~terminate
    /\ Len(pads) = 2
    /\ pads[1].outcome = "link_failed"
    /\ pads[2].outcome = "link_succeeded"
    /\ peer = 2

\* how many times a call occurs in a sequence of calls
Count(e, calls) == Cardinality({i \in DOMAIN calls : calls[i] = e})

\* the step is a tick of bt4 on which the position or the duration query failed
IsFailedQueryTick ==
    IsTickStep /\ last'.out \cap {"position_failed", "duration_failed"} # {}

\* C18: in bt4 a failed position or duration query on a tick is reported
\* and nothing more: terminate, playing and seek_enabled are as before and
\* the loop goes on; seek_done changes only if the tick seeks, which a tick
\* with a failed position query never does, its position being the initial
\* -1; a cached duration is kept, the duration query being made, and its
\* failure leaving GST_CLOCK_TIME_NONE, only where nothing was cached; and
\* a tick makes each query at most once.
C18_FailedQueryOnTick ==
    /\ [][IsFailedQueryTick =>
            /\ last'.out \cap {"position_failed", "duration_failed"} \subseteq errs'
            /\ pc' = "loop"
            /\ UNCHANGED <<terminate, playing, seek_enabled, seekq>>
            /\ seek_done' # seek_done => last'.seek.requested
            /\ duration # GST_CLOCK_TIME_NONE => duration' = duration]_vars
    /\ [][IsTickStep /\ "position_failed" \in last'.out =>
            /\ last'.current = -1
            /\ ~last'.seek.requested
            /\ Ev("call", "seek") \notin Events(last'.calls)
            /\ UNCHANGED <<seek_done, seeks>>]_vars
    /\ [][IsTickStep /\ "duration_failed" \in last'.out =>
            duration = GST_CLOCK_TIME_NONE /\ duration' = GST_CLOCK_TIME_NONE]_vars
    /\ [][IsTickStep =>
            /\ Count(Ev("call", "position"), last'.calls) = (IF playing THEN 1 ELSE 0)
            /\ Count(Ev("call", "duration"), last'.calls) <= 1]_vars

\* the position query failed on a tick at which a seek was allowed and a
\* duration was cached
C18_Witness ==
    /\ prog = "bt4"
    /\ IsTick(last)
    /\ "position_failed" \in last.out
    /\ playing /\ seek_enabled /\ ~seek_done
    /\ duration \in Durations

\* C19: every run of pad_added_handler in bt3 releases what it acquired,
\* whichever way it leaves: the caps are released once if
\* gst_pad_get_current_caps was called and returned caps, and not at all
\* otherwise; the sink pad's reference is acquired once and released once,
\* as the last call; so no temporary reference outlives a run, however
\* many pads were handled.
C19_HandlerReleasesTemporaries ==
    last.op = "pad_added" =>
        LET pad == pads[Len(pads)]
            got == pad.outcome # "already_linked" /\ ~pad.caps.null
        IN  /\ Count(Ev("acquire", "sink_pad"), last.calls) = 1
            /\ Count(Ev("release", "sink_pad"), last.calls) = 1
            /\ Balanced("sink_pad", last.calls)
            /\ last.calls[Len(last.calls)] = Ev("release", "sink_pad")
            /\ Count(Ev("acquire", "caps"), last.calls) = (IF got THEN 1 ELSE 0)
            /\ Count(Ev("release", "caps"), last.calls) = (IF got THEN 1 ELSE 0)
            /\ Balanced("caps", last.calls)

\* three pads left the handler three ways: without caps, linked, and
\* found already linked, the last one never asking for caps
C19_Witness ==
    /\ last.op = "pad_added"
    /\ Len(pads) = 3
    /\ pads[1].caps.null /\ pads[1].outcome = "not_raw_audio"
    /\ pads[2].outcome = "link_succeeded"
    /\ pads[3].outcome = "already_linked"
    /\ Count(Ev("release", "caps"), last.calls) = 0

\* the flags of the session state
Flags == <<playing, terminate, seek_enabled, seek_done, duration>>

\* C20: the session flags have one writer, the thread of main: playing,
\* terminate, seek_enabled, seek_done and duration change only in an
\* iteration of main's loop (its body, or handle_message called from it);
\* a run of the pad-added callback, on a streaming thread, leaves all of
\* them and every handle as they are, and the converter it reads is alive;
\* so however its runs fall between the steps of main, the flags are
\* written by main alone.
C20_SingleWriter ==
    /\ [][IsHandlerStep =>
            /\ last'.op = "pad_added"
            /\ Flags' = Flags
            /\ handle' = handle
            /\ handle["convert"] = "bin"
            /\ UNCHANGED <<pc, exit, target, errs>>]_vars
    /\ [][Flags' # Flags => IsLoopStep /\ pads' = pads]_vars

\* the callback ran after main's loop had set terminate and released the
\* bus, before the pipeline was set to NULL
C20_Witness ==
    /\ prog = "bt3"
    /\ last.op = "pad_added"
    /\ terminate
    /\ pc = "set_null"
    /\ Len(pads) >= 1

\* C21: in bt4 the tick that calls gst_element_seek_simple sets seek_done,
\* whatever the call returns; so after a seek that failed no tick seeks
\* again, the result stays "failed" and the session ends without a
\* successful seek.
C21_FailedSeekNeverRetried ==
    /\ [][IsTickStep /\ last'.seek.requested =>
            /\ ~seek_done /\ seek_done'
            /\ seeks' = seeks + 1
            /\ seek_result' = (IF last'.seek.ok THEN "ok" ELSE "failed")]_vars
    /\ [][seek_result = "failed" =>
            /\ seek_done'
            /\ ~last'.seek.requested
            /\ Ev("call", "seek") \notin Events(last'.calls)
            /\ seeks' = 1
            /\ seek_result' = "failed"]_vars
    /\ [](seek_result = "failed" => seek_done /\ seeks = 1)

\* the session ended after its only seek failed
C21_Witness ==
    /\ prog = "bt4"
    /\ seek_result = "failed"
    /\ seek_enabled
    /\ ShutDown

C23_AtMostOnePeer ==
    /\ [](Cardinality(Succeeded) <= 1)
    /\ [](peer # 0 <=> Succeeded = {peer})
    /\ [][peer # 0 => peer' = peer]_vars
    /\ [][last'.op = "pad_link" /\ inflight' # inflight /\ peer # 0 =>
            /\ last'.linkret = GST_PAD_LINK_WAS_LINKED
            /\ pads'[last'.pad].outcome = "link_failed"
            /\ "link_failed" \in last'.out
            /\ "already_linked" \notin last'.out
            /\ peer' = peer]_vars

\* two runs passed the check together; the first one linked and the
\* second one's gst_pad_link found the sink pad linked
C23_Witness ==
    /\ prog = "bt3"
    /\ last.op = "pad_link"
    /\ last.linkret = GST_PAD_LINK_WAS_LINKED
    /\ peer \in 1..Len(pads)
    /\ peer # last.pad
    /\ pads[last.pad].outcome = "link_failed"
    /\ HasRawAudioCaps(pads[last.pad].caps)
    /\ HasRawAudioCaps(pads[peer].caps)

=============================================================================
